---- MODULE Spec2Model ----
(***************************************************************************)
(* The QuickJS -> Calimero shim of packages/cli/shim/src/lib.rs: seventeen *)
(* extern "C" entry points that turn (ptr, len) pairs and u64 identifiers  *)
(* into the host interface's Buffer / RegisterId / PtrSizedInt values,     *)
(* perform one host call and hand the result back as u32 / u64.            *)
(*                                                                         *)
(* A u64 is the pair <<hi, lo>> of its upper and lower 32 bits, so that    *)
(* `as usize` on a 32-bit target (drop hi) is modelled at its real width.  *)
(***************************************************************************)
EXTENDS Integers, Sequences, FiniteSets, TLC

VARIABLES
    usizeBits,   \* pointer width of the build target: 32 or 64
    mem,         \* caller (guest) linear memory, addresses 1..MemTop; 0 is null
    call,        \* the entry-point invocation in hand: [op, args]
    hostCalls,   \* the host calls that invocation performed, in order
    ret,         \* the value handed back to the caller
    status,      \* "idle" | "returned" | "aborted"
    ub,          \* the invocation broke a safety precondition of slice::from_raw_parts
    storage,     \* host: key bytes -> value bytes
    regs,        \* host: register id -> bytes
    fds,         \* host: open blob descriptors -> bytes written so far
    blobs,       \* host: id -> content of the blobs closed so far
    written,     \* caller: key bytes -> value bytes it last wrote and did not remove
    fetched,     \* caller: the register its last storage read filled, and with what
    lenSeen,     \* caller: what register_len last returned, and for which register
    created,     \* caller: descriptors blob_create gave it -> bytes it wrote to them
    ncalls,      \* invocations made (bounded scenarios)
    callLog,     \* entry points invoked, in order (bounded scenarios)
    hostLog      \* host operations performed, in order (bounded scenarios)

shimVars == <<usizeBits, mem, call, hostCalls, ret, status, ub>>
hostVars == <<storage, regs, fds, blobs>>
ghostVars == <<written, fetched, lenSeen, created>>
logVars == <<ncalls, callLog, hostLog>>
vars == <<usizeBits, mem, call, hostCalls, ret, status, ub, storage, regs, fds,
          blobs, written, fetched, lenSeen, created, ncalls, callLog, hostLog>>

----------------------------------------------------------------------------
(* Bounds of the model *)

MemTop == 2     \* highest caller address
MaxByte == 1    \* bytes are 0..MaxByte
MaxWord == 1    \* low halves of identifiers and magnitudes are 0..MaxWord
MaxBool == 2    \* raw values of the host's Bool are 0..MaxBool
MaxCalls == 3   \* invocations in a storage / blob scenario
MaxLog == 2     \* invocations whose order is logged
BlobIdLen == 1  \* bytes of a blob id

Byte == 0..MaxByte
Addr == 1..MemTop
UpperHalves == {0, 1}
U64s == {<<h, l>> : h \in UpperHalves, l \in 0..MaxWord}
NoRet == "unit"
None == "none"

Zero == <<0, 0>>
Word(n) == <<0, n>>

\* The (address, length) pairs a caller may pass: non-null, wholly inside memory.
ValidSpans == {<<Word(t[1]), Word(t[2])>> :
                 t \in {x \in Addr \X (0..MemTop) : x[1] + x[2] <= MemTop + 1}}
\* The zero-length span at the null address.
NullSpan == <<Zero, Zero>>

Bytes(m, p, n) == [i \in 1..n |-> m[p + i - 1]]

----------------------------------------------------------------------------
(* Conversions of lib.rs *)

\* `x as usize` (and `ptr as *const u8`): keeps the low usizeBits bits.
AsUsize(x) == IF usizeBits = 32 THEN <<0, x[2]>> ELSE x

\* `x as u64` of a usize: zero extension.
AsU64(x) == <<x[1], x[2]>>

RegisterId_new(x) == x
PtrSizedInt_new(x) == x
\* as_usize, were the magnitude cut to 32 bits on the way back.
as_usize_low32(p) == <<0, p[2]>>

\* PtrSizedInt::as_usize followed by `as u64`.
as_usize(p) == AsU64(p)

\* core::slice::from_raw_parts(ptr as *const u8, len as usize)
from_raw_parts(ptr, len) ==
    [ptr |-> AsUsize(ptr), len |-> AsUsize(len), mutable |-> FALSE]

\* core::slice::from_raw_parts_mut(ptr as *mut u8, len as usize)
from_raw_parts_mut(ptr, len) ==
    [ptr |-> AsUsize(ptr), len |-> AsUsize(len), mutable |-> TRUE]

\* Buffer::from(&[u8]) / Buffer::from(&mut [u8]): the descriptor of the slice.
Buffer_from(s) == [ptr |-> s.ptr, len |-> s.len, mutable |-> s.mutable]

buffer_from_raw(ptr, len) == Buffer_from(from_raw_parts(ptr, len))

buffer_mut_from_raw(ptr, len) == Buffer_from(from_raw_parts_mut(ptr, len))

\* core::str::from_utf8_unchecked: the same bytes, not validated.
from_utf8_unchecked(s) == s

\* Event::new(kind, &data)
Event_new(kind, data) == <<Buffer_from(kind), data>>

\* The safety contract of slice::from_raw_parts{,_mut}: `data` must be non-null
\* (and aligned) even for a zero-length slice.
SliceUB(s) == s.ptr = Zero

\* What a build may do with a call that breaks that contract: hand the slice on
\* as it is (release), or stop at the precondition check (debug assertions).
Outcomes(bad) == IF bad THEN {"run", "abort"} ELSE {"run"}

\* TryFrom<Bool> for bool: Ok(true), Ok(false) or Err(raw value).
Bool_try_into(b) ==
    IF b = 1 THEN [ok |-> TRUE, v |-> TRUE]
    ELSE IF b = 0 THEN [ok |-> TRUE, v |-> FALSE]
    ELSE [ok |-> FALSE, v |-> b]

\* bool_to_u32, were every value but true collapsed to 0.
bool_to_u32_collapsed(b) == IF b = 1 THEN 1 ELSE 0

bool_to_u32(b) ==
    LET r == Bool_try_into(b)
    IN  IF r.ok /\ r.v = TRUE THEN 1
        ELSE IF r.ok /\ r.v = FALSE THEN 0
        ELSE r.v

----------------------------------------------------------------------------
(* The host side of one call *)

HostBools == 0..MaxBool
\* A PtrSizedInt the host may return: any pointer-sized value.
HostSizes == {<<h, l>> : h \in IF usizeBits = 32 THEN {0} ELSE UpperHalves,
                         l \in 0..MemTop}

SliceBytes(m, b) == Bytes(m, b.ptr[2], b.len[2])
InSlice(a, b) == b.ptr[2] <= a /\ a < b.ptr[2] + b.len[2]

\* Memory after a host call: the host writes only through mutable buffers.
HostWrites(m, bufs) ==
    {m2 \in [Addr -> Byte] :
        \A a \in Addr : m2[a] # m[a] =>
            \E i \in 1..Len(bufs) : bufs[i].mutable /\ InSlice(a, bufs[i])}

\* Dispatch, were the host call made a second time.
Dispatch_retry(name, args, slices, hostop, bufs, ids, result, retval) ==
    /\ status = "idle"
    /\ call' = [op |-> name, args |-> args]
    /\ ub' = \E i \in 1..Len(slices) : SliceUB(slices[i])
    /\ LET h == [op |-> hostop, bufs |-> bufs,
                 seen |-> [i \in 1..Len(bufs) |-> SliceBytes(mem, bufs[i])],
                 ids |-> ids, result |-> result]
       IN  hostCalls' = <<h, h>>
    /\ ret' = retval
    /\ mem' \in HostWrites(mem, bufs)
    /\ status' = "returned"
    /\ UNCHANGED usizeBits

\* One entry point: build the slices, make the one host call, return.
Dispatch(name, args, slices, hostop, bufs, ids, result, retval) ==
    /\ status = "idle"
    /\ call' = [op |-> name, args |-> args]
    /\ LET bad == \E i \in 1..Len(slices) : SliceUB(slices[i])
       IN  /\ ub' = bad
           /\ \E outcome \in Outcomes(bad) :
                IF outcome = "abort"
                THEN /\ hostCalls' = <<>>
                     /\ ret' = NoRet
                     /\ mem' = mem
                     /\ status' = "aborted"
                ELSE /\ hostCalls' = <<[op |-> hostop, bufs |-> bufs,
                                        seen |-> [i \in 1..Len(bufs) |->
                                                    SliceBytes(mem, bufs[i])],
                                        ids |-> ids, result |-> result]>>
                     /\ ret' = retval
                     /\ mem' \in HostWrites(mem, bufs)
                     /\ status' = "returned"
    /\ UNCHANGED usizeBits

----------------------------------------------------------------------------
(* The entry points *)

shim_log_utf8(ptr, len) ==
    LET message == from_utf8_unchecked(from_raw_parts(ptr, len))
    IN  Dispatch("shim_log_utf8", <<ptr, len>>, <<message>>,
                 "log", <<Buffer_from(message)>>, <<>>, NoRet, NoRet)

shim_storage_read(key_ptr, key_len, register_id) ==
    LET key == from_raw_parts(key_ptr, key_len)
        reg_id == RegisterId_new(AsUsize(register_id))
    IN  \E result \in HostBools :
            Dispatch("shim_storage_read", <<key_ptr, key_len, register_id>>, <<key>>,
                     "storage_read", <<Buffer_from(key)>>, <<reg_id>>,
                     result, bool_to_u32(result))

\* shim_storage_write, were value handed to the host as key and key as value.
shim_storage_write_swapped(key_ptr, key_len, value_ptr, value_len, register_id) ==
    LET key == from_raw_parts(key_ptr, key_len)
        value == from_raw_parts(value_ptr, value_len)
        reg_id == RegisterId_new(AsUsize(register_id))
    IN  \E result \in HostBools :
            Dispatch("shim_storage_write",
                     <<key_ptr, key_len, value_ptr, value_len, register_id>>,
                     <<key, value>>,
                     "storage_write", <<Buffer_from(value), Buffer_from(key)>>,
                     <<reg_id>>, result, bool_to_u32(result))

\* shim_storage_write, were the value given the length of the key.
shim_storage_write_keylen(key_ptr, key_len, value_ptr, value_len, register_id) ==
    LET key == from_raw_parts(key_ptr, key_len)
        value == from_raw_parts(value_ptr, key_len)
        reg_id == RegisterId_new(AsUsize(register_id))
    IN  \E result \in HostBools :
            Dispatch("shim_storage_write",
                     <<key_ptr, key_len, value_ptr, value_len, register_id>>,
                     <<key, value>>,
                     "storage_write", <<Buffer_from(key), Buffer_from(value)>>,
                     <<reg_id>>, result, bool_to_u32(result))

shim_storage_write(key_ptr, key_len, value_ptr, value_len, register_id) ==
    LET key == from_raw_parts(key_ptr, key_len)
        value == from_raw_parts(value_ptr, value_len)
        reg_id == RegisterId_new(AsUsize(register_id))
    IN  \E result \in HostBools :
            Dispatch("shim_storage_write",
                     <<key_ptr, key_len, value_ptr, value_len, register_id>>,
                     <<key, value>>,
                     "storage_write", <<Buffer_from(key), Buffer_from(value)>>,
                     <<reg_id>>, result, bool_to_u32(result))

shim_storage_remove(key_ptr, key_len, register_id) ==
    LET key == from_raw_parts(key_ptr, key_len)
        reg_id == RegisterId_new(AsUsize(register_id))
    IN  \E result \in HostBools :
            Dispatch("shim_storage_remove", <<key_ptr, key_len, register_id>>, <<key>>,
                     "storage_remove", <<Buffer_from(key)>>, <<reg_id>>,
                     result, bool_to_u32(result))

shim_context_id(register_id) ==
    LET reg_id == RegisterId_new(AsUsize(register_id))
    IN  Dispatch("shim_context_id", <<register_id>>, <<>>,
                 "context_id", <<>>, <<reg_id>>, NoRet, NoRet)

shim_executor_id(register_id) ==
    LET reg_id == RegisterId_new(AsUsize(register_id))
    IN  Dispatch("shim_executor_id", <<register_id>>, <<>>,
                 "executor_id", <<>>, <<reg_id>>, NoRet, NoRet)

shim_register_len(register_id) ==
    LET reg_id == RegisterId_new(AsUsize(register_id))
    IN  \E result \in HostSizes :
            Dispatch("shim_register_len", <<register_id>>, <<>>,
                     "register_len", <<>>, <<reg_id>>, result, as_usize(result))

\* shim_read_register, were the destination's address and length exchanged.
shim_read_register_swapped(register_id, buf_ptr, buf_len) ==
    LET reg_id == RegisterId_new(AsUsize(register_id))
        buffer == buffer_mut_from_raw(buf_len, buf_ptr)
    IN  \E result \in HostBools :
            Dispatch("shim_read_register", <<register_id, buf_ptr, buf_len>>, <<buffer>>,
                     "read_register", <<buffer>>, <<reg_id>>,
                     result, bool_to_u32(result))

shim_read_register(register_id, buf_ptr, buf_len) ==
    LET reg_id == RegisterId_new(AsUsize(register_id))
        buffer == buffer_mut_from_raw(buf_ptr, buf_len)
    IN  \E result \in HostBools :
            Dispatch("shim_read_register", <<register_id, buf_ptr, buf_len>>, <<buffer>>,
                     "read_register", <<buffer>>, <<reg_id>>,
                     result, bool_to_u32(result))

shim_emit(kind_ptr, kind_len, data_ptr, data_len) ==
    LET kind_bytes == from_raw_parts(kind_ptr, kind_len)
        kind_str == from_utf8_unchecked(kind_bytes)
        data == from_raw_parts(data_ptr, data_len)
        data_buffer == Buffer_from(data)
        event == Event_new(kind_str, data_buffer)
    IN  Dispatch("shim_emit", <<kind_ptr, kind_len, data_ptr, data_len>>,
                 <<kind_bytes, data>>, "emit", event, <<>>, NoRet, NoRet)

shim_emit_with_handler(kind_ptr, kind_len, data_ptr, data_len, handler_ptr, handler_len) ==
    LET kind_bytes == from_raw_parts(kind_ptr, kind_len)
        kind_str == from_utf8_unchecked(kind_bytes)
        data == from_raw_parts(data_ptr, data_len)
        handler == from_raw_parts(handler_ptr, handler_len)
        data_buffer == Buffer_from(data)
        handler_buffer == Buffer_from(handler)
        event == Event_new(kind_str, data_buffer)
    IN  Dispatch("shim_emit_with_handler",
                 <<kind_ptr, kind_len, data_ptr, data_len, handler_ptr, handler_len>>,
                 <<kind_bytes, data, handler>>,
                 "emit_with_handler", event \o <<handler_buffer>>, <<>>, NoRet, NoRet)

shim_commit(root_ptr, root_len, artifact_ptr, artifact_len) ==
    LET root == from_raw_parts(root_ptr, root_len)
        artifact == from_raw_parts(artifact_ptr, artifact_len)
    IN  Dispatch("shim_commit", <<root_ptr, root_len, artifact_ptr, artifact_len>>,
                 <<root, artifact>>,
                 "commit", <<Buffer_from(root), Buffer_from(artifact)>>, <<>>,
                 NoRet, NoRet)

shim_time_now(buf_ptr, buf_len) ==
    LET buffer == buffer_mut_from_raw(buf_ptr, buf_len)
    IN  Dispatch("shim_time_now", <<buf_ptr, buf_len>>, <<buffer>>,
                 "time_now", <<buffer>>, <<>>, NoRet, NoRet)

shim_blob_create ==
    \E result \in HostSizes :
        Dispatch("shim_blob_create", <<>>, <<>>,
                 "blob_create", <<>>, <<>>, result, as_usize(result))

shim_blob_open(blob_id_ptr, blob_id_len) ==
    LET blob_id == from_raw_parts(blob_id_ptr, blob_id_len)
    IN  \E result \in HostSizes :
            Dispatch("shim_blob_open", <<blob_id_ptr, blob_id_len>>, <<blob_id>>,
                     "blob_open", <<Buffer_from(blob_id)>>, <<>>,
                     result, as_usize(result))

shim_blob_read(fd, buf_ptr, buf_len) ==
    LET buffer == buffer_mut_from_raw(buf_ptr, buf_len)
        fd_sized == PtrSizedInt_new(AsUsize(fd))
    IN  \E result \in HostSizes :
            Dispatch("shim_blob_read", <<fd, buf_ptr, buf_len>>, <<buffer>>,
                     "blob_read", <<buffer>>, <<fd_sized>>, result, as_usize(result))

\* shim_blob_write, were the source handed to the host as a mutable view.
shim_blob_write_mut(fd, data_ptr, data_len) ==
    LET data == from_raw_parts_mut(data_ptr, data_len)
        fd_sized == PtrSizedInt_new(AsUsize(fd))
    IN  \E result \in HostSizes :
            Dispatch("shim_blob_write", <<fd, data_ptr, data_len>>, <<data>>,
                     "blob_write", <<Buffer_from(data)>>, <<fd_sized>>,
                     result, as_usize(result))

\* shim_blob_write, were the length handed to the host as the descriptor.
shim_blob_write_wrongfd(fd, data_ptr, data_len) ==
    LET data == from_raw_parts(data_ptr, data_len)
        fd_sized == PtrSizedInt_new(AsUsize(data_len))
    IN  \E result \in HostSizes :
            Dispatch("shim_blob_write", <<fd, data_ptr, data_len>>, <<data>>,
                     "blob_write", <<Buffer_from(data)>>, <<fd_sized>>,
                     result, as_usize(result))

shim_blob_write(fd, data_ptr, data_len) ==
    LET data == from_raw_parts(data_ptr, data_len)
        fd_sized == PtrSizedInt_new(AsUsize(fd))
    IN  \E result \in HostSizes :
            Dispatch("shim_blob_write", <<fd, data_ptr, data_len>>, <<data>>,
                     "blob_write", <<Buffer_from(data)>>, <<fd_sized>>,
                     result, as_usize(result))

shim_blob_close(fd, blob_id_buf_ptr, blob_id_buf_len) ==
    LET buffer == buffer_mut_from_raw(blob_id_buf_ptr, blob_id_buf_len)
        fd_sized == PtrSizedInt_new(AsUsize(fd))
    IN  \E result \in HostBools :
            Dispatch("shim_blob_close", <<fd, blob_id_buf_ptr, blob_id_buf_len>>,
                     <<buffer>>, "blob_close", <<buffer>>, <<fd_sized>>,
                     result, bool_to_u32(result))

----------------------------------------------------------------------------
(* The caller invokes entry points in any order, one at a time (status is   *)
(* "idle" between two invocations); the host is any host                     *)

EmptyMap == [x \in {} |-> None]

Init ==
    /\ usizeBits \in {32, 64}
    /\ mem \in [Addr -> Byte]
    /\ call = [op |-> "none", args |-> <<>>]
    /\ hostCalls = <<>>
    /\ ret = NoRet
    /\ status = "idle"
    /\ ub = FALSE
    /\ storage = EmptyMap
    /\ regs = EmptyMap
    /\ fds = EmptyMap
    /\ blobs = EmptyMap
    /\ written = EmptyMap
    /\ fetched = <<>>
    /\ lenSeen = <<>>
    /\ created = EmptyMap
    /\ ncalls = 0
    /\ callLog = <<>>
    /\ hostLog = <<>>

\* The host's own state is not looked at: any result, any bytes written.
AnyHost == UNCHANGED <<hostVars, ghostVars, logVars>>

\* The caller takes the result and runs on until its next call.
CallerResumes ==
    /\ status = "returned"
    /\ status' = "idle"
    /\ call' = [op |-> "none", args |-> <<>>]
    /\ hostCalls' = <<>>
    /\ ret' = NoRet
    /\ ub' = FALSE
    /\ UNCHANGED <<usizeBits, mem, hostVars, ghostVars, logVars>>

\* The operations of the host, in the order an invocation performed them.
HostOpsOf(hs) == [i \in 1..Len(hs) |-> hs[i].op]

\* The host is any host, and the first MaxLog invocations are logged.
Logged ==
    /\ Len(callLog) < MaxLog
    /\ callLog' = Append(callLog, call'.op)
    /\ hostLog' = hostLog \o HostOpsOf(hostCalls')
    /\ UNCHANGED <<hostVars, ghostVars, ncalls>>

\* What stands behind the host interface in a specification.
Env(host) == IF host = "logged" THEN Logged ELSE AnyHost

Calls(S, I, host) ==
    \/ status = "idle" /\ \E s \in S : shim_log_utf8(s[1], s[2]) /\ Env(host)
    \/ status = "idle" /\ \E k \in S, r \in I :
          shim_storage_read(k[1], k[2], r) /\ Env(host)
    \/ status = "idle" /\ \E k \in S, v \in S, r \in I :
          shim_storage_write(k[1], k[2], v[1], v[2], r) /\ Env(host)
    \/ status = "idle" /\ \E k \in S, r \in I :
          shim_storage_remove(k[1], k[2], r) /\ Env(host)
    \/ status = "idle" /\ \E r \in I : shim_context_id(r) /\ Env(host)
    \/ status = "idle" /\ \E r \in I : shim_executor_id(r) /\ Env(host)
    \/ status = "idle" /\ \E r \in I : shim_register_len(r) /\ Env(host)
    \/ status = "idle" /\ \E r \in I, b \in S :
          shim_read_register(r, b[1], b[2]) /\ Env(host)
    \/ status = "idle" /\ \E k \in S, d \in S :
          shim_emit(k[1], k[2], d[1], d[2]) /\ Env(host)
    \/ status = "idle" /\ \E k \in S, d \in S, h \in S :
          shim_emit_with_handler(k[1], k[2], d[1], d[2], h[1], h[2]) /\ Env(host)
    \/ status = "idle" /\ \E r \in S, a \in S :
          shim_commit(r[1], r[2], a[1], a[2]) /\ Env(host)
    \/ status = "idle" /\ \E b \in S : shim_time_now(b[1], b[2]) /\ Env(host)
    \/ status = "idle" /\ shim_blob_create /\ Env(host)
    \/ status = "idle" /\ \E i \in S : shim_blob_open(i[1], i[2]) /\ Env(host)
    \/ status = "idle" /\ \E f \in I, b \in S :
          shim_blob_read(f, b[1], b[2]) /\ Env(host)
    \/ status = "idle" /\ \E f \in I, d \in S :
          shim_blob_write(f, d[1], d[2]) /\ Env(host)
    \/ status = "idle" /\ \E f \in I, b \in S :
          shim_blob_close(f, b[1], b[2]) /\ Env(host)
    \/ CallerResumes

\* Callers that keep the safety contract of the slice constructors.
Next == Calls(ValidSpans, U64s, "any")

Spec == Init /\ [][Next]_vars

\* Callers that also pass the zero-length span at the null address.
NextNull == Calls(ValidSpans \cup {NullSpan}, U64s, "any")

SpecNull == Init /\ [][NextNull]_vars

\* A caller with one span and one identifier, whose calls are logged in order.
SeqSpans == {<<Word(1), Word(1)>>}
SeqIds == {Word(1)}

InitSeq == Init /\ mem = [a \in Addr |-> 0]

NextSeq == Calls(SeqSpans, SeqIds, "logged")

SpecSeq == InitSeq /\ [][NextSeq]_vars

----------------------------------------------------------------------------
(* A host that keeps storage and registers as the host interface describes, *)
(* and a caller that writes, reads back and reads registers                 *)

Put(f, k, v) == [x \in DOMAIN f \cup {k} |-> IF x = k THEN v ELSE f[x]]
Drop(f, k) == [x \in DOMAIN f \ {k} |-> f[x]]

\* Memory with the bytes bs stored from address p on.
Poke(m, p, bs) ==
    [a \in Addr |-> IF p <= a /\ a < p + Len(bs) THEN bs[a - p + 1] ELSE m[a]]

\* What context_id puts in the register: the host's own identity.
ContextIdBytes == [i \in 1..MemTop |-> i % (MaxByte + 1)]

\* storage read: the value goes to the register; true when the key is there.
HostStorageRead(h) ==
    LET key == h.seen[1]
    IN  /\ h.result = IF key \in DOMAIN storage THEN 1 ELSE 0
        /\ regs' = IF key \in DOMAIN storage
                   THEN Put(regs, h.ids[1], storage[key]) ELSE regs
        /\ UNCHANGED <<storage, mem>>

\* storage write: the previous value, if any, goes to the register.
HostStorageWrite(h) ==
    LET key == h.seen[1]
    IN  /\ h.result = IF key \in DOMAIN storage THEN 1 ELSE 0
        /\ storage' = Put(storage, key, h.seen[2])
        /\ regs' = IF key \in DOMAIN storage
                   THEN Put(regs, h.ids[1], storage[key]) ELSE regs
        /\ UNCHANGED mem

\* storage remove: the removed value, if any, goes to the register.
HostStorageRemove(h) ==
    LET key == h.seen[1]
    IN  /\ h.result = IF key \in DOMAIN storage THEN 1 ELSE 0
        /\ storage' = Drop(storage, key)
        /\ regs' = IF key \in DOMAIN storage
                   THEN Put(regs, h.ids[1], storage[key]) ELSE regs
        /\ UNCHANGED mem

HostContextId(h) ==
    /\ regs' = Put(regs, h.ids[1], ContextIdBytes)
    /\ UNCHANGED <<storage, mem>>

\* register length: the byte count of a populated register.
HostRegisterLen(h) ==
    /\ h.ids[1] \in DOMAIN regs => h.result = Word(Len(regs[h.ids[1]]))
    /\ UNCHANGED <<storage, regs, mem>>

\* register read: succeeds, filling the destination, only when the destination
\* has exactly the register's length; otherwise fails and writes nothing.
HostReadRegister(h) ==
    LET id == h.ids[1]
        fits == id \in DOMAIN regs /\ h.bufs[1].len = Word(Len(regs[id]))
    IN  /\ h.result = IF fits THEN 1 ELSE 0
        /\ mem' = IF fits THEN Poke(mem, h.bufs[1].ptr[2], regs[id]) ELSE mem
        /\ UNCHANGED <<storage, regs>>

KeyOf(c, m) == Bytes(m, c.args[1][2], c.args[2][2])
ValueOf(c, m) == Bytes(m, c.args[3][2], c.args[4][2])

\* What the caller keeps track of across its own calls.
CallerNotes ==
    LET c == call'
    IN  /\ written' =
              IF c.op = "shim_storage_write"
              THEN Put(written, KeyOf(c, mem), ValueOf(c, mem))
              ELSE IF c.op = "shim_storage_remove" THEN Drop(written, KeyOf(c, mem))
              ELSE written
        /\ fetched' =
              IF c.op = "shim_storage_read"
              THEN IF KeyOf(c, mem) \in DOMAIN written
                   THEN <<[id |-> c.args[3], val |-> written[KeyOf(c, mem)]]>>
                   ELSE <<>>
              ELSE IF c.op \in {"shim_read_register", "shim_register_len"} THEN fetched
              ELSE <<>>
        /\ lenSeen' =
              IF c.op = "shim_register_len" THEN <<[id |-> c.args[1], len |-> ret']>>
              ELSE IF c.op = "shim_read_register" THEN lenSeen
              ELSE <<>>

StoreHost ==
    /\ ncalls < MaxCalls
    /\ ncalls' = ncalls + 1
    /\ Len(hostCalls') = 1
    /\ LET h == hostCalls'[1]
       IN  CASE h.op = "storage_read" -> HostStorageRead(h)
             [] h.op = "storage_write" -> HostStorageWrite(h)
             [] h.op = "storage_remove" -> HostStorageRemove(h)
             [] h.op = "context_id" -> HostContextId(h)
             [] h.op = "register_len" -> HostRegisterLen(h)
             [] h.op = "read_register" -> HostReadRegister(h)
    /\ CallerNotes
    /\ UNCHANGED <<fds, blobs, created, callLog, hostLog>>

StoreKeys == {<<Word(1), Word(1)>>, <<Word(2), Word(1)>>}
StoreValues == {<<Word(1), Word(2)>>, <<Word(2), Word(1)>>}
StoreDests == {<<Word(1), Word(2)>>, <<Word(1), Word(1)>>, <<Word(2), Word(1)>>}
StoreIds == {Word(0), Word(1), <<1, 0>>}

InitStore == Init /\ mem = [a \in Addr |-> a % (MaxByte + 1)]

NextStore ==
    \/ status = "idle" /\ \E k \in StoreKeys, r \in StoreIds :
          shim_storage_read(k[1], k[2], r) /\ StoreHost
    \/ status = "idle" /\ \E k \in StoreKeys, v \in StoreValues, r \in StoreIds :
          shim_storage_write(k[1], k[2], v[1], v[2], r) /\ StoreHost
    \/ status = "idle" /\ \E k \in StoreKeys, r \in StoreIds :
          shim_storage_remove(k[1], k[2], r) /\ StoreHost
    \/ status = "idle" /\ \E r \in StoreIds : shim_context_id(r) /\ StoreHost
    \/ status = "idle" /\ \E r \in StoreIds : shim_register_len(r) /\ StoreHost
    \/ status = "idle" /\ \E r \in StoreIds, b \in StoreDests :
          shim_read_register(r, b[1], b[2]) /\ StoreHost
    \/ CallerResumes

SpecStore == InitStore /\ [][NextStore]_vars

----------------------------------------------------------------------------
(* A host that keeps blobs as the host interface describes, and a caller    *)
(* that creates, writes, closes and opens them                              *)

RECURSIVE SumBytes(_)
SumBytes(bs) == IF bs = <<>> THEN 0 ELSE bs[1] + SumBytes(Tail(bs))

\* The id of a blob: BlobIdLen bytes that depend on its content alone.
BlobId(data) == [i \in 1..BlobIdLen |-> (SumBytes(data) + Len(data) + 1) % (MaxByte + 1)]

\* The descriptors the host can still give out; 0 is its "none".
FreeFds == HostSizes \ ({Zero} \cup DOMAIN fds)

\* blob create: a new descriptor open for writing.
HostBlobCreate(h) ==
    /\ IF FreeFds = {}
       THEN h.result = Zero /\ fds' = fds
       ELSE h.result \in FreeFds /\ fds' = Put(fds, h.result, [w |-> TRUE, data |-> <<>>])
    /\ UNCHANGED <<blobs, mem>>

\* blob open: a new descriptor for a blob that exists, 0 when there is none.
HostBlobOpen(h) ==
    /\ IF h.seen[1] \in DOMAIN blobs /\ FreeFds # {}
       THEN h.result \in FreeFds
            /\ fds' = Put(fds, h.result, [w |-> FALSE, data |-> blobs[h.seen[1]]])
       ELSE h.result = Zero /\ fds' = fds
    /\ UNCHANGED <<blobs, mem>>

\* blob write: appends the bytes and returns how many.
HostBlobWrite(h) ==
    LET fd == h.ids[1]
        ok == fd \in DOMAIN fds /\ fds[fd].w
    IN  /\ h.result = IF ok THEN Word(Len(h.seen[1])) ELSE Zero
        /\ fds' = IF ok THEN [fds EXCEPT ![fd].data = @ \o h.seen[1]] ELSE fds
        /\ UNCHANGED <<blobs, mem>>

\* blob close: on success the blob's id is written into the destination.
HostBlobClose(h) ==
    LET fd == h.ids[1]
        ok == fd \in DOMAIN fds /\ fds[fd].w /\ h.bufs[1].len = Word(BlobIdLen)
    IN  /\ h.result = IF ok THEN 1 ELSE 0
        /\ mem' = IF ok THEN Poke(mem, h.bufs[1].ptr[2], BlobId(fds[fd].data)) ELSE mem
        /\ blobs' = IF ok THEN Put(blobs, BlobId(fds[fd].data), fds[fd].data) ELSE blobs
        /\ fds' = IF ok THEN Drop(fds, fd) ELSE fds

\* The descriptors blob_create returned to the caller and what it wrote to each.
BlobNotes ==
    LET c == call'
    IN  created' =
            IF c.op = "shim_blob_create" /\ ret' # Zero THEN Put(created, ret', <<>>)
            ELSE IF c.op = "shim_blob_write" /\ c.args[1] \in DOMAIN created
            THEN [created EXCEPT ![c.args[1]] = @ \o Bytes(mem, c.args[2][2], c.args[3][2])]
            ELSE IF c.op = "shim_blob_close" /\ ret' = 1 THEN Drop(created, c.args[1])
            ELSE created

BlobHost ==
    /\ ncalls < MaxCalls
    /\ ncalls' = ncalls + 1
    /\ Len(hostCalls') = 1
    /\ LET h == hostCalls'[1]
       IN  CASE h.op = "blob_create" -> HostBlobCreate(h)
             [] h.op = "blob_open" -> HostBlobOpen(h)
             [] h.op = "blob_write" -> HostBlobWrite(h)
             [] h.op = "blob_close" -> HostBlobClose(h)
    /\ BlobNotes
    /\ UNCHANGED <<storage, regs, written, fetched, lenSeen, callLog, hostLog>>

BlobData == {<<Word(1), Word(2)>>, <<Word(2), Word(1)>>, <<Word(2), Word(0)>>}
BlobDests == {<<Word(1), Word(1)>>, <<Word(1), Word(2)>>}
\* The descriptors the caller uses: ones blob_create may return and ones it
\* may not, no two of them equal in their lower 32 bits (C7 is about those).
BlobFds == {Word(1), Word(2), <<1, 0>>}

NextBlob ==
    \/ status = "idle" /\ shim_blob_create /\ BlobHost
    \/ status = "idle" /\ \E i \in BlobDests : shim_blob_open(i[1], i[2]) /\ BlobHost
    \/ status = "idle" /\ \E f \in BlobFds, d \in BlobData : shim_blob_write(f, d[1], d[2]) /\ BlobHost
    \/ status = "idle" /\ \E f \in BlobFds, b \in BlobDests : shim_blob_close(f, b[1], b[2]) /\ BlobHost
    \/ CallerResumes

SpecBlob == InitStore /\ [][NextBlob]_vars

----------------------------------------------------------------------------
(* The call shapes of the entry points: where each span and identifier sits *)
(* among the arguments, and the host operation each one stands for          *)

\* Index in args of the address of each span parameter, in host-parameter order
\* (its length is the next argument).
SpanArgs(op) ==
    CASE op \in {"shim_log_utf8", "shim_storage_read", "shim_storage_remove",
                 "shim_time_now", "shim_blob_open"} -> <<1>>
      [] op \in {"shim_storage_write", "shim_emit", "shim_commit"} -> <<1, 3>>
      [] op = "shim_emit_with_handler" -> <<1, 3, 5>>
      [] op \in {"shim_read_register", "shim_blob_read", "shim_blob_write",
                 "shim_blob_close"} -> <<2>>
      [] OTHER -> <<>>

\* Index in args of the register id or blob descriptor, 0 when there is none.
IdArg(op) ==
    CASE op \in {"shim_storage_read", "shim_storage_remove"} -> 3
      [] op = "shim_storage_write" -> 5
      [] op \in {"shim_context_id", "shim_executor_id", "shim_register_len",
                 "shim_read_register", "shim_blob_read", "shim_blob_write",
                 "shim_blob_close"} -> 1
      [] OTHER -> 0

HostOp(op) ==
    CASE op = "shim_log_utf8" -> "log"
      [] op = "shim_storage_read" -> "storage_read"
      [] op = "shim_storage_write" -> "storage_write"
      [] op = "shim_storage_remove" -> "storage_remove"
      [] op = "shim_context_id" -> "context_id"
      [] op = "shim_executor_id" -> "executor_id"
      [] op = "shim_register_len" -> "register_len"
      [] op = "shim_read_register" -> "read_register"
      [] op = "shim_emit" -> "emit"
      [] op = "shim_emit_with_handler" -> "emit_with_handler"
      [] op = "shim_commit" -> "commit"
      [] op = "shim_time_now" -> "time_now"
      [] op = "shim_blob_create" -> "blob_create"
      [] op = "shim_blob_open" -> "blob_open"
      [] op = "shim_blob_read" -> "blob_read"
      [] op = "shim_blob_write" -> "blob_write"
      [] op = "shim_blob_close" -> "blob_close"
      [] OTHER -> "none"

BoolOps == {"shim_storage_read", "shim_storage_write", "shim_storage_remove",
            "shim_read_register", "shim_blob_close"}
SizeOps == {"shim_register_len", "shim_blob_create", "shim_blob_open",
            "shim_blob_read", "shim_blob_write"}
\* The operations whose span is a destination the host fills.
DestOps == {"shim_read_register", "shim_time_now", "shim_blob_read", "shim_blob_close"}

Returned == status = "returned" /\ Len(hostCalls) >= 1

\* The i-th span argument of the invocation in hand, as (address, length).
SpanPtr(c, i) == c.args[SpanArgs(c.op)[i]]
SpanLen(c, i) == c.args[SpanArgs(c.op)[i] + 1]

----------------------------------------------------------------------------
(* C1 *)

\* C1: for the five entry points that return the host's Bool, the u32 handed to
\* the caller is 1 when the host value encodes true, 0 when it encodes false,
\* and the raw value itself otherwise (a host 2 comes back as 2).
C1_BoolPassthrough ==
    (Returned /\ call.op \in BoolOps) =>
        LET b == hostCalls[1].result
            t == Bool_try_into(b)
        IN  ret = IF t.ok THEN (IF t.v THEN 1 ELSE 0) ELSE b

C1_Witness ==
    /\ Returned
    /\ call.op = "shim_blob_close"
    /\ hostCalls[1].result = 2
    /\ ret = 2

----------------------------------------------------------------------------
(* C2 *)

\* C2: for every entry point and every span it is given, the host receives, in
\* the same parameter position, the buffer of exactly that address and length,
\* and so exactly the bytes of caller memory there: key stays key and value
\* stays value, kind / data / handler and root / artifact stay apart.
C2_SpanFidelity ==
    Returned =>
        LET h == hostCalls[1]
            n == Len(SpanArgs(call.op))
        IN  /\ Len(h.bufs) = n
            /\ \A i \in 1..n :
                  /\ h.bufs[i].ptr = SpanPtr(call, i)
                  /\ h.bufs[i].len = SpanLen(call, i)
                  /\ call.op \notin DestOps =>
                        h.seen[i] = Bytes(mem, SpanPtr(call, i)[2], SpanLen(call, i)[2])

C2_Witness ==
    /\ Returned
    /\ call.op = "shim_emit_with_handler"
    /\ hostCalls[1].seen[1] # hostCalls[1].seen[2]
    /\ hostCalls[1].seen[2] # hostCalls[1].seen[3]
    /\ hostCalls[1].seen[1] # hostCalls[1].seen[3]
    /\ hostCalls[1].seen[3] = Bytes(mem, call.args[5][2], call.args[6][2])
    /\ Len(hostCalls[1].seen[3]) = MemTop

----------------------------------------------------------------------------
(* C6 *)

\* C6: register length, blob create, blob open, blob read and blob write hand
\* the caller the magnitude the host returned, unchanged; a failure magnitude
\* such as blob open's "not found" 0 is returned like any other value.
C6_MagnitudePassthrough ==
    (call.op \in SizeOps) =>
        /\ status = "returned"
        /\ Len(hostCalls) = 1
        /\ ret = hostCalls[1].result

C6_Witness ==
    /\ Returned
    /\ call.op = "shim_blob_open"
    /\ hostCalls[1].result = Zero
    /\ ret = Zero

----------------------------------------------------------------------------
(* C7 *)

\* C7: the register id or blob descriptor the host receives equals the u64 the
\* caller supplied, so two distinct values never reach the host as the same
\* identifier.
C7_IdsForwarded ==
    (Returned /\ IdArg(call.op) # 0) =>
        hostCalls[1].ids = <<call.args[IdArg(call.op)]>>

----------------------------------------------------------------------------
(* C8 *)

\* C8: an entry point called with the span (address 0, length 0) breaks no
\* precondition of span construction and shows the host an empty span.
C8_NullEmptySpanInContract ==
    \A i \in 1..Len(SpanArgs(call.op)) :
        (SpanPtr(call, i) = Zero /\ SpanLen(call, i) = Zero) =>
            /\ ~ub
            /\ Returned
            /\ hostCalls[1].seen[i] = <<>>

----------------------------------------------------------------------------
(* C9 *)

InDest(a, c) ==
    /\ c.op \in DestOps
    /\ SpanPtr(c, 1)[2] <= a
    /\ a < SpanPtr(c, 1)[2] + SpanLen(c, 1)[2]

\* C9: the view handed to the host is mutable exactly for the destination of
\* register read, time now, blob read and blob close and read-only for every
\* other span, and a call changes caller memory only inside such a destination.
C9_MemoryFrame ==
    [][ /\ Returned' =>
              \A i \in 1..Len(hostCalls'[1].bufs) :
                  hostCalls'[1].bufs[i].mutable = (call'.op \in DestOps)
        /\ \A a \in Addr : mem'[a] # mem[a] => InDest(a, call')
      ]_vars

C9_Witness ==
    /\ Returned
    /\ call.op = "shim_read_register"
    /\ hostCalls[1].bufs[1].mutable
    /\ hostCalls[1].seen[1] # Bytes(mem, call.args[2][2], call.args[3][2])

----------------------------------------------------------------------------
(* C10 *)

\* C10: every invocation of every entry point performs exactly one host call,
\* the one it stands for, and returns, whatever the host reports; so the host
\* calls of a sequence of invocations are one per invocation, in the same order.
C10_OneHostCallEach ==
    /\ status # "aborted"
    /\ call.op # "none" =>
          /\ status = "returned"
          /\ Len(hostCalls) = 1
          /\ hostCalls[1].op = HostOp(call.op)
    /\ hostLog = [i \in 1..Len(callLog) |-> HostOp(callLog[i])]

C10_Witness ==
    /\ Returned
    /\ Len(callLog) = MaxLog
    /\ callLog[1] = "shim_storage_remove"
    /\ call.op = "shim_blob_close"
    /\ hostCalls[1].result = 0
    /\ ret = 0

----------------------------------------------------------------------------
(* C3 *)

\* C3: once the caller's last write of key k wrote v, with no later remove or
\* write of k, a storage read of k into register r reports 1, and the register
\* read of r that follows, into a destination of the register's length, reports
\* 1 and leaves exactly the bytes v in the destination.
C3_ReadBack ==
    /\ (Returned /\ call.op = "shim_storage_read" /\ KeyOf(call, mem) \in DOMAIN written)
          => ret = 1
    /\ (Returned /\ call.op = "shim_read_register" /\ fetched # <<>>
          /\ fetched[1].id = call.args[1])
          => /\ AsUsize(call.args[1]) \in DOMAIN regs
             /\ call.args[3] = Word(Len(regs[AsUsize(call.args[1])]))
                   => /\ ret = 1
                      /\ Bytes(mem, call.args[2][2], call.args[3][2]) = fetched[1].val

C3_Witness ==
    /\ Returned
    /\ call.op = "shim_read_register"
    /\ fetched # <<>>
    /\ fetched[1].id = call.args[1]
    /\ Len(fetched[1].val) >= 1
    /\ ret = 1
    /\ Bytes(mem, call.args[2][2], call.args[3][2]) = fetched[1].val
    /\ hostCalls[1].seen[1] # fetched[1].val

----------------------------------------------------------------------------
(* C4 *)

\* C4: for a populated register r, a register read of r into a destination as
\* long as register_len(r) just returned succeeds, and one into a shorter
\* destination returns the host's failure and delivers nothing: never success
\* with a prefix of the content.
C4_ExactOrFail ==
    (Returned /\ call.op = "shim_read_register" /\ lenSeen # <<>>
       /\ lenSeen[1].id = call.args[1] /\ AsUsize(call.args[1]) \in DOMAIN regs)
    => /\ call.args[3] = lenSeen[1].len => ret = 1
       /\ (call.args[3][1] = 0 /\ lenSeen[1].len[1] = 0 /\ call.args[3][2] < lenSeen[1].len[2])
             => /\ ret # 1
                /\ ret = hostCalls[1].result
                /\ Bytes(mem, call.args[2][2], call.args[3][2]) = hostCalls[1].seen[1]

C4_Witness ==
    /\ Returned
    /\ call.op = "shim_read_register"
    /\ lenSeen # <<>>
    /\ lenSeen[1].id = call.args[1]
    /\ AsUsize(call.args[1]) \in DOMAIN regs
    /\ lenSeen[1].len = Word(2)
    /\ call.args[3] = Word(1)
    /\ ret = 0

----------------------------------------------------------------------------
(* C5 *)

\* C5: for a descriptor D that blob create returned, a blob write of N bytes to
\* D returns N, and the blob close of D that follows, into a destination of the
\* id's size, reports 1 and leaves the non-empty id of the written content in
\* the destination.
C5_BlobLifecycle ==
    [][ /\ (call'.op = "shim_blob_write" /\ call'.args[1] \in DOMAIN created)
              => /\ status' = "returned"
                 /\ ret' = call'.args[3]
        /\ (call'.op = "shim_blob_close" /\ call'.args[1] \in DOMAIN created
              /\ call'.args[3] = Word(BlobIdLen))
              => /\ status' = "returned"
                 /\ ret' = 1
                 /\ LET id == Bytes(mem', call'.args[2][2], call'.args[3][2])
                    IN  /\ id # <<>>
                        /\ id \in DOMAIN blobs'
                        /\ id = BlobId(blobs'[id])
      ]_vars

C5_Witness ==
    /\ Returned
    /\ call.op = "shim_blob_close"
    /\ ret = 1
    /\ LET id == Bytes(mem, call.args[2][2], call.args[3][2])
       IN  /\ id # <<>>
           /\ id \in DOMAIN blobs
           /\ Len(blobs[id]) = 2
           /\ hostCalls[1].seen[1] # id

====
